---------------------------- MODULE Spec2Model ----------------------------
(***************************************************************************)
(* A model of line_item_manager's creation pipeline: the Config singleton  *)
(* (config.py), the orchestrator create_line_items (app_runner.py) and the *)
(* console command create (cli.py).                                        *)
(*                                                                         *)
(* Python values are encoded as follows.  An attribute that is None or not *)
(* yet set is the empty tuple, a set attribute v is <<v>>.  A falsy number *)
(* is 0 and a falsy string is "".  The bounds and the interval of a bucket *)
(* are integers in tenths of a cent, prices are integers in cents.         *)
(***************************************************************************)
EXTENDS Integers, Sequences, FiniteSets, TLC

None == <<>>
Some(v) == <<v>>
Get(c) == c[1]

(***************************************************************************)
(* Bounds of the model.                                                    *)
(***************************************************************************)
\* create_line_items / create invocations in one process
MaxRuns == 2
\* operations in a behaviour of the Config-object specification
MaxOps == 5

(***************************************************************************)
(* Exception types.                                                        *)
(***************************************************************************)
UsageError == "LineItemManagerUsageError"
ClickUsageError == "click.UsageError"
YAMLError == "yaml.YAMLError"
ResourceNotActive == "ResourceNotActive"
ResourceNotFound == "ResourceNotFound"
GoogleAdsError == "GoogleAdsError"
ValueError == "ValueError"
KeyboardInterrupt == "KeyboardInterrupt"
\* any exception type that no except clause of the orchestrators names
OtherError == "RuntimeError"
NoException == ""

(***************************************************************************)
(* Files the run reads.  A file is a record with a flag saying whether it  *)
(* parses, and its content.                                                *)
(***************************************************************************)
Bucket(mn, mx, iv) == [min |-> mn, max |-> mx, interval |-> iv]

\* settings.yml of the package and a caller-supplied settings file
PackageSettings ==
  [prebid |-> [bidders |-> [single_order |-> [code |-> "prebid"]],
               price_granularity |-> [low |-> << Bucket(50, 50, 50) >>]],
   mgr |-> [test_run |-> [line_item_limit |-> 1],
            date_fmt |-> "%m/%d/%y %H:%M",
            timezone |-> "UTC"]]

CustomSettings ==
  [prebid |-> [bidders |-> [single_order |-> [code |-> "hb"]],
               price_granularity |-> [low |-> << Bucket(50, 100, 50) >>]],
   mgr |-> [test_run |-> [line_item_limit |-> 3],
            date_fmt |-> "%Y-%m-%d",
            timezone |-> "UTC"]]

SettingsOf(path) == IF path = "" THEN PackageSettings ELSE CustomSettings

\* schema.yml of the package and caller-supplied schema files
SchemaOf(path) == IF path = "" THEN "schema.yml" ELSE path
BrokenSchema == "broken_schema.yml"

KnownZones == {"UTC", "America/New_York"}

\* the bidder codes of the Prebid registry
KnownBidders == {"rubicon", "appnexus"}

\* display names the ad platform may report for the account's network
DisplayNames == {"Pub", "DocPub"}

\* the user configuration document before pre_create
BaseDoc ==
  [publisher |-> [network_code |-> 7, network_name |-> "DocPub"],
   order |-> [name |-> << "Order" >>],
   line_item |-> [name |-> << "LineItem" >>, item_type |-> "standard",
                  start_datetime |-> "", end_datetime |-> "", timezone |-> "",
                  start_dt |-> None, start_dt_type |-> "", end_dt |-> None,
                  unlimited_end_dt |-> None, goal |-> None],
   rate |-> [granularity |-> [type |-> "custom",
                              custom |-> << Bucket(100, 200, 100), Bucket(200, 200, 10) >>],
             vcpm |-> 0, cost_type |-> ""],
   bidder_key_map |-> {}]

Docs ==
  { BaseDoc,
    [BaseDoc EXCEPT !.publisher.network_code = 8,
                    !.rate.granularity.type = "low"],
    [BaseDoc EXCEPT !.line_item.timezone = "Mars/Phobos"],
    [BaseDoc EXCEPT !.bidder_key_map = {"nosuchbidder"}],
    [BaseDoc EXCEPT !.rate.granularity.custom = << >>],
    [BaseDoc EXCEPT !.line_item.item_type = "sponsorship", !.rate.vcpm = 100,
                    !.line_item.goal = Some([goalType |-> "DAILY",
                                             unitType |-> "IMPRESSIONS",
                                             units |-> 100])],
    [BaseDoc EXCEPT !.rate.vcpm = 100,
                    !.line_item.start_datetime = "01/02/26 10:00",
                    !.line_item.end_datetime = "02/02/26 10:00",
                    !.line_item.timezone = "America/New_York"] }

\* the configuration file: a document, or text that is no YAML
ConfigFiles == { [parses |-> TRUE, doc |-> d] : d \in Docs }
                 \cup { [parses |-> FALSE, doc |-> BaseDoc] }

BidderLists == { << >>, << "rubicon" >>, << "rubicon", "appnexus" >> }

\* CreateOptions.normalized_cli(), and the kwargs click hands to create
Options ==
  [network_code : {0, 7}, network_name : {"", "Pub"},
   private_key_file : {"gam_creds.json"},
   template : {""}, settings : {"", "custom_settings.yml"},
   schema : {"", "custom_schema.yml", BrokenSchema},
   single_order : BOOLEAN, bidder_code : BidderLists,
   test_run : BOOLEAN, dry_run : {FALSE}, quiet : {FALSE}, verbose : {0},
   skip_auto_archive : {FALSE}]


(***************************************************************************)
(* config.py: the Config object.  An operation takes the object (a record  *)
(* of its attributes) and returns the object after it.                     *)
(***************************************************************************)
INFO == 20
WARNING == 30

\* Config.__init__ ; _cli, _client, _user and _client_factory are not set yet
NewConfig ==
  [_schema |-> None, _cpm_names |-> None, _app |-> None, _cli |-> None,
   _client |-> None, _user |-> None, _client_factory |-> "",
   log_level |-> INFO]

cli(c) == Get(c._cli)
user(c) == Get(c._user)

\* Config.set_log_level
set_log_level(c) ==
  LET v == IF cli(c).verbose # 0
             THEN [c EXCEPT !.log_level = INFO - cli(c).verbose] ELSE c
  IN  IF cli(c).quiet THEN [v EXCEPT !.log_level = WARNING] ELSE v

\* Config.cli setter with a bug: the client handle is kept
cli_setter_keeps_client(c, obj) == set_log_level([c EXCEPT !._cli = Some(obj)])

\* Config.cli setter
cli_setter(c, obj) ==
  set_log_level([c EXCEPT !._cli = Some(obj), !._client = None])

\* Config.set_client_factory
set_client_factory(c, factory) ==
  [c EXCEPT !._client = None, !._client_factory = factory]

\* Config.set_user_configfile, for a file that parses
set_user_configfile(c, file) ==
  [c EXCEPT !._user = Some(file.doc), !._client = None, !._cpm_names = None]

\* Config.settings_obj: the settings file of the override layer, else the
\* package's
settings_obj(c) == SettingsOf(cli(c).settings)

\* Config.app: the object after the read, and the value read
app_read(c) == IF c._app = None THEN [c EXCEPT !._app = Some(settings_obj(c))] ELSE c
app(c) == Get(app_read(c)._app)

\* Config.network_code and Config.network_name:  a or b
network_code(c) ==
  IF cli(c).network_code # 0 THEN cli(c).network_code
                             ELSE user(c).publisher.network_code

\* a network name taken from the layer that supplies the network code
network_name_of_code_layer(c) ==
  IF cli(c).network_code # 0 THEN cli(c).network_name
                             ELSE user(c).publisher.network_name

network_name(c) ==
  IF cli(c).network_name # "" THEN cli(c).network_name
                              ELSE user(c).publisher.network_name

\* gam_operations.client: the handle built for a network and a key file
gam_client(code, key) == [network_code |-> code, private_key_file |-> key]

\* a read of config.client that does not keep the handle
client_read_unmemoized(c) == c

\* Config.client: the object after a read whose factory call succeeds
client_read(c) ==
  IF c._client = None
    THEN [c EXCEPT !._client =
                      Some(gam_client(network_code(c), cli(c).private_key_file))]
    ELSE c
client(c) == Get(client_read(c)._client)

\* Config.schema: the object after a read whose file parses
schema_read(c) ==
  IF c._schema = None THEN [c EXCEPT !._schema = Some(SchemaOf(cli(c).schema))]
                      ELSE c
schema(c) == Get(schema_read(c)._schema)
\* load_file raises yaml.YAMLError on a file that is no YAML
schema_raises(c) == c._schema = None /\ cli(c).schema = BrokenSchema

\* Config.bidder_codes
bidder_codes(c) ==
  IF cli(c).single_order
    THEN << app(c).prebid.bidders.single_order.code >>
    ELSE cli(c).bidder_code
bidder_codes_read(c) == IF cli(c).single_order THEN app_read(c) ELSE c

\* Config.cpm_buckets
cpm_buckets(c) ==
  LET type == user(c).rate.granularity.type
  IN  IF type = "custom" THEN user(c).rate.granularity.custom
                         ELSE app(c).prebid.price_granularity[type]
cpm_buckets_read(c) ==
  IF user(c).rate.granularity.type = "custom" THEN c ELSE app_read(c)

\* a value of tenths of a cent rounded to cents
Round2(m) == (m + 5) \div 10

\* utils.values_from_bucket: min, min + interval, ... up to max inclusive, each
\* rounded to two decimal places; one value when min = max
values_from_bucket(bucket) ==
  IF bucket.max = bucket.min THEN { Round2(bucket.min) }
  ELSE { Round2(bucket.min + k * bucket.interval) :
           k \in 0 .. ((bucket.max - bucket.min) \div bucket.interval) }

RECURSIVE sorted(_)
sorted(values) ==
  IF values = {} THEN << >>
  ELSE LET least == CHOOSE v \in values : \A w \in values : v <= w
       IN  << least >> \o sorted(values \ {least})

\* '%.2f' % v for a price of v cents
Digits == << "0", "1", "2", "3", "4", "5", "6", "7", "8", "9" >>
RECURSIVE Decimal(_)
Decimal(n) == IF n < 10 THEN Digits[n + 1]
                        ELSE Decimal(n \div 10) \o Digits[(n % 10) + 1]
Fmt2(v) == Decimal(v \div 100) \o "." \o Digits[((v \div 10) % 10) + 1]
                               \o Digits[(v % 10) + 1]

\* the names bucket by bucket, without the union of the expansions
RECURSIVE names_per_bucket(_)
names_per_bucket(buckets) ==
  IF buckets = << >> THEN << >>
  ELSE LET ordered == sorted(values_from_bucket(Head(buckets)))
       IN  [i \in DOMAIN ordered |-> Fmt2(ordered[i])]
             \o names_per_bucket(Tail(buckets))

\* the names of the prices of a list of buckets
names_of_buckets(buckets) ==
  LET values == UNION { values_from_bucket(buckets[i]) : i \in DOMAIN buckets }
      ordered == sorted(values)
  IN  [i \in DOMAIN ordered |-> Fmt2(ordered[i])]

\* the list cpm_names() computes when nothing is memoized
expand_cpm_names(c) == names_of_buckets(cpm_buckets(c))

\* cpm_names that memoizes the list it returns in test mode
cpm_names_read_truncated(c) ==
  LET names == expand_cpm_names(c)
      limit == app(c).mgr.test_run.line_item_limit
      kept == IF cli(c).test_run /\ limit < Len(names)
                THEN SubSeq(names, 1, limit) ELSE names
      filled == IF c._cpm_names = None
                  THEN [cpm_buckets_read(c) EXCEPT !._cpm_names = Some(kept)]
                  ELSE c
  IN  IF cli(c).test_run THEN app_read(filled) ELSE filled

\* Config.cpm_names: the object after the call, and the list returned
cpm_names_read(c) ==
  LET filled == IF c._cpm_names = None
                  THEN [cpm_buckets_read(c) EXCEPT
                          !._cpm_names = Some(expand_cpm_names(c))]
                  ELSE c
  IN  IF cli(c).test_run THEN app_read(filled) ELSE filled
cpm_names(c) ==
  LET names == Get(cpm_names_read(c)._cpm_names)
      limit == app(c).mgr.test_run.line_item_limit
  IN  IF cli(c).test_run
        THEN SubSeq(names, 1, IF limit < Len(names) THEN limit ELSE Len(names))
        ELSE names

\* yaml_date.date_from_string: None for no string, else the parsed date
Immediately == [text |-> "IMMEDIATELY", fmt |-> "", tz |-> ""]
date_from_string(str, fmt, tz) ==
  IF str = "" THEN None ELSE Some([text |-> str, fmt |-> fmt, tz |-> tz])

RunModePlaceholder == "{{ run_mode }}"

\* the placeholder joined behind the name
placeholder_after_name(name) == name \o << RunModePlaceholder >>

\* ''.join(['{{ run_mode }}', name])
with_placeholder(name) == << RunModePlaceholder >> \o name

\* a cost type that ignores vcpm
cost_type_always_cpm(vcpm) == "CPM"

\* cost_type = "VCPM" if vcpm else "CPM"
cost_type_of(vcpm) == IF vcpm # 0 THEN "VCPM" ELSE "CPM"

\* an end that is always unlimited
unlimited_end_always(end_str) == TRUE

\* unlimited_end_dt = not end_str
unlimited_end(end_str) == end_str = ""

\* a vcpm check that never objects
vcpm_accepted(vcpm, is_standard) == FALSE

\* if vcpm: if not is_standard: raise ValueError
vcpm_error(vcpm, is_standard) == vcpm # 0 /\ ~is_standard

\* Config.pre_create: the object after the call and the exception it raises.
\* The document is changed in place, so what was written before a raise stays.
pre_create(c) ==
  LET c0 == app_read(c)
      li_ == user(c0).line_item
      is_standard == li_.item_type = "standard"
      is_sponsorship == li_.item_type = "sponsorship"
      end_str == li_.end_datetime
      start_str == li_.start_datetime
      fmt == app(c0).mgr.date_fmt
      vcpm == user(c0).rate.vcpm
      tz_str == IF li_.timezone = "" THEN app(c0).mgr.timezone ELSE li_.timezone
      named == [user(c0) EXCEPT
                  !.line_item.name = with_placeholder(@),
                  !.order.name = with_placeholder(@)]
      dated == [named EXCEPT
                  !.line_item.start_dt =
                     IF start_str # "" THEN date_from_string(start_str, fmt, tz_str)
                                       ELSE Some(Immediately),
                  !.line_item.start_dt_type =
                     IF start_str # "" THEN "USE_START_DATE_TIME" ELSE "IMMEDIATELY",
                  !.line_item.end_dt = date_from_string(end_str, fmt, tz_str),
                  !.line_item.unlimited_end_dt = Some(unlimited_end(end_str))]
      goal_none == IF is_sponsorship THEN dated
                   ELSE [dated EXCEPT !.line_item.goal =
                           Some([goalType |-> "NONE", unitType |-> "", units |-> 0])]
      goal_vcpm == [goal_none EXCEPT !.line_item.goal =
                      Some([goalType |-> "LIFETIME",
                            unitType |-> "VIEWABLE_IMPRESSIONS", units |-> vcpm])]
      costed == [(IF vcpm # 0 THEN goal_vcpm ELSE goal_none) EXCEPT
                   !.rate.cost_type = cost_type_of(vcpm)]
  IN  IF tz_str \notin KnownZones
        THEN [config |-> c0, raises |-> ValueError,
              message |-> "Unknown Time Zone"]
      ELSE IF vcpm_error(vcpm, is_standard)
        THEN [config |-> [c0 EXCEPT !._user = Some(goal_none)], raises |-> ValueError,
              message |-> "Specifying 'vcpm' requires using line item type 'standard'"]
      ELSE [config |-> [c0 EXCEPT !._user = Some(costed)], raises |-> NoException,
            message |-> ""]

(***************************************************************************)
(* gam_config.GAMConfig, as far as the orchestrators use it.               *)
(***************************************************************************)
\* GAMConfig()
NewGAM == [success |-> FALSE, li_objs |-> << >>, lica_objs |-> << >>,
           attempted |-> << >>]

Unit(kind, bidder, cpm) == [kind |-> kind, bidder |-> bidder, cpm |-> cpm]

\* the external calls of one grouping: the order, then for every price in
\* ascending order its line item and then the creative association of it
RECURSIVE PriceUnits(_, _)
PriceUnits(bidder, names) ==
  IF names = << >> THEN << >>
  ELSE << Unit("line_item", bidder, Head(names)), Unit("lica", bidder, Head(names)) >>
         \o PriceUnits(bidder, Tail(names))

RECURSIVE GroupingUnits(_, _)
GroupingUnits(bidders, names) ==
  IF bidders = << >> THEN << >>
  ELSE << Unit("order", Head(bidders), "") >> \o PriceUnits(Head(bidders), names)
         \o GroupingUnits(Tail(bidders), names)

\* the calls GAMConfig.create_line_items makes when none of them fails
Units(c) == GroupingUnits(bidder_codes(c), cpm_names(c))

SelectUnits(units, kind, bidder) ==
  SelectSeq(units, LAMBDA u : u.kind = kind /\ u.bidder = bidder)

RECURSIVE Groupings(_)
Groupings(units) ==
  IF units = << >> THEN << >>
  ELSE (IF Head(units).kind = "order" THEN << Head(units).bidder >> ELSE << >>)
         \o Groupings(Tail(units))

\* GAMConfig.create_line_items whose call number failed raises (0: none does):
\* the calls before it succeeded and their resources are tracked, no call is
\* made after it
gam_create_line_items(g, units, failed) ==
  LET made == IF failed = 0 THEN units ELSE SubSeq(units, 1, failed - 1)
      tried == IF failed = 0 THEN units ELSE SubSeq(units, 1, failed)
      groups == Groupings(made)
  IN  [g EXCEPT
        !.attempted = tried,
        !.li_objs = [i \in DOMAIN groups |->
                       [bidder |-> groups[i],
                        _line_items |-> SelectUnits(made, "line_item", groups[i])]],
        !.lica_objs = [i \in DOMAIN groups |-> SelectUnits(made, "lica", groups[i])]]

\* what GAMConfig.create_line_items reads of the Config object
gam_create_reads(c) == cpm_names_read(bidder_codes_read(c))

CreationExceptions ==
  {ResourceNotActive, ResourceNotFound, GoogleAdsError, ValueError,
   KeyboardInterrupt, OtherError}

\* GAMConfig.cleanup fails with the platform's error or not at all
CleanupExceptions == {NoException, GoogleAdsError}

(***************************************************************************)
(* app_runner.py and cli.py: the pieces of the two orchestrators.  The     *)
(* entry point is "app" for create_line_items and "cli" for create.        *)
(***************************************************************************)
\* _reset_config_cache that forgets the schema and the settings
_reset_keeps_files(c) ==
  [c EXCEPT !._cpm_names = None, !._client = None, !._user = None]

\* _reset_config_cache
_reset_config_cache(c) ==
  [c EXCEPT !._schema = None, !._cpm_names = None, !._app = None,
            !._client = None, !._user = None]

\* the error both entry points raise for an abort they recognise
usage_error(e) == IF e = "app" THEN UsageError ELSE ClickUsageError

\* the partition checks without the check for both modes
partition_error_neither_only(o) ==
  IF ~o.single_order /\ o.bidder_code = << >>
    THEN "You must use --single-order or provide at least one --bidder-code"
    ELSE ""

\* the partition checks without the check for neither mode
partition_error_both_only(o) ==
  IF o.single_order /\ o.bidder_code # << >>
    THEN "Use of --single-order and --bidder-code is not allowed."
    ELSE ""

\* the partition checks: "" when exactly one mode is chosen
partition_error(o) ==
  IF ~o.single_order /\ o.bidder_code = << >>
    THEN "You must use --single-order or provide at least one --bidder-code"
  ELSE IF o.single_order /\ o.bidder_code # << >>
    THEN "Use of --single-order and --bidder-code is not allowed."
  ELSE ""

\* PrebidBidder.validate_override_map raises ValueError for a code the registry
\* does not know
validate_override_map_raises(map) == ~(map \subseteq KnownBidders)
OverrideMapMessage == "Unknown bidder code in bidder_key_map"

\* the except clauses without the one for ValueError, as create has them
handled_without_value_error(e, exc) ==
  exc \in {ResourceNotActive, ResourceNotFound, GoogleAdsError, KeyboardInterrupt}

\* the except clauses without the one for KeyboardInterrupt
handled_without_interrupt(e, exc) ==
  exc \in {ResourceNotActive, ResourceNotFound, GoogleAdsError}
    \cup (IF e = "app" THEN {ValueError} ELSE {})

\* the except clauses around gam.create_line_items()
handled(e, exc) ==
  IF e = "app"
    THEN exc \in {ResourceNotActive, ResourceNotFound, GoogleAdsError,
                  ValueError, KeyboardInterrupt}
    ELSE exc \in {ResourceNotActive, ResourceNotFound, GoogleAdsError,
                  KeyboardInterrupt}

error_message(exc) ==
  CASE exc = ResourceNotActive -> "Resource is not active"
    [] exc = ResourceNotFound -> "Resource not found"
    [] exc = GoogleAdsError -> "Google Ads Error"
    [] exc = ValueError -> "Unexpected result"
    [] exc = KeyboardInterrupt -> "User Interrupt"

CleanupMessage == "Cleanup: Google Ads Error"

\* except clauses that append the entry once more for the log line
record_creation_error_twice(e, errs, exc) ==
  IF e = "app" /\ exc # NoException /\ handled(e, exc)
    THEN Append(Append(errs, error_message(exc)), error_message(exc)) ELSE errs

\* the errors list after the except clauses; create only logs
record_creation_error(e, errs, exc) ==
  IF e = "app" /\ exc # NoException /\ handled(e, exc)
    THEN Append(errs, error_message(exc)) ELSE errs

\* cleanup written after the try statement instead of in a finally clause
cleanup_after_try(propagating) == propagating = NoException

\* the finally clause: gam.cleanup() is called however the try block ended
finally_runs(propagating) == TRUE

\* a cleanup handler that starts the errors list afresh
replace_by_cleanup_error(e, errs, exc) ==
  IF e = "app" /\ exc = GoogleAdsError THEN << CleanupMessage >> ELSE errs

\* the errors list after the except clause around gam.cleanup()
record_cleanup_error(e, errs, exc) ==
  IF e = "app" /\ exc = GoogleAdsError THEN Append(errs, CleanupMessage) ELSE errs

RECURSIVE Flatten(_)
Flatten(lists) ==
  IF lists = << >> THEN << >> ELSE Head(lists) \o Flatten(Tail(lists))

RECURSIVE TotalLen(_)
TotalLen(lists) ==
  IF lists = << >> THEN 0 ELSE Len(Head(lists)) + TotalLen(Tail(lists))

\* a count of the tracked objects instead of the line items they hold
count_li_objs(g) == Len(g.li_objs)

\* the counting loop over gam.li_objs and the sum over gam.lica_objs
line_item_count(g) ==
  TotalLen([i \in DOMAIN g.li_objs |-> g.li_objs[i]._line_items])
\* a count of the association lists instead of the associations in them
lica_count_of_groupings(g) == Len(g.lica_objs)

lica_count(g) == TotalLen(g.lica_objs)

\* success that ignores the errors list
success_of_gam_only(g, errs) == g.success

\* CreateResult.success
result_success(g, errs) == g.success /\ errs = << >>

\* the CreateResult create_line_items returns
create_result(g, errs, include_details) ==
  [success |-> result_success(g, errs),
   errors |-> errs,
   line_item_count |-> line_item_count(g),
   lica_count |-> lica_count(g),
   line_items |-> IF include_details
                    THEN Flatten([i \in DOMAIN g.li_objs |-> g.li_objs[i]._line_items])
                    ELSE << >>,
   licas |-> IF include_details THEN g.lica_objs ELSE << >>]

(***************************************************************************)
(* The process: the Config singleton, and one run of an entry point at a   *)
(* time.                                                                   *)
(***************************************************************************)
VARIABLES
  config,   \* the Config singleton
  gam,      \* the GAMConfig of the current run
  pc,       \* where the current run stands
  entry,    \* the entry point of the current run
  runs,     \* invocations started in this process
  errors,   \* the errors list of the current run
  pending,  \* the exception propagating through the finally clause
  raised,   \* the exception the run ended with
  result,   \* the CreateResult the run returned
  calls,    \* external calls made by the current run
  stages,   \* the stages the current run entered, in order
  input,    \* the options and the configuration file of the current run
  outcome,  \* what the validator and the calls of the creation phase did
  prev_client,  \* the client handle the singleton held when the run began
  message,  \* the text of the exception the run ended with
  returned, \* what the calls made on the Config object returned, in order
  twin      \* the finished run of create_line_items the CLI run is compared with

vars == << config, gam, pc, entry, runs, errors, pending, raised, result,
           calls, stages, input, outcome, prev_client, message, returned, twin >>

NoOutcome == [valid |-> FALSE, create |-> NoException, failed |-> 0,
              cleanup |-> NoException]

NoCalls == [factory |-> 0, network |-> 0, create |-> 0, cleanup |-> 0, cpm |-> 0]

Init ==
  /\ config = NewConfig
  /\ gam = NewGAM
  /\ pc = "idle"
  /\ entry = ""
  /\ runs = 0
  /\ errors = << >>
  /\ pending = NoException
  /\ raised = NoException
  /\ result = None
  /\ calls = NoCalls
  /\ stages = << >>
  /\ input = None
  /\ outcome = NoOutcome
  /\ prev_client = None
  /\ message = ""
  /\ returned = << >>
  /\ twin = None

Ended == pc \in {"returned", "raised"}

\* the run ends by raising exc with the text msg
Raise(exc, msg) ==
  /\ pc' = "raised"
  /\ raised' = exc
  /\ message' = msg

\* the run goes on
Continue == UNCHANGED << raised, message >>

\* the first lines of both entry points, up to set_client_factory:
\* create_line_items lines 91-111, create lines 68-86
Begin(e, o, file) ==
  LET fresh == IF e = "app" THEN _reset_config_cache(config) ELSE config
      flagged == cli_setter(fresh, o)
      loaded == set_user_configfile(flagged, file)
  IN  /\ pc = "idle"
      /\ runs < MaxRuns
      /\ runs' = runs + 1
      /\ entry' = e
      /\ errors' = << >>
      /\ pending' = NoException
      /\ result' = None
      /\ calls' = NoCalls
      /\ input' = Some([options |-> o, file |-> file])
      /\ outcome' = NoOutcome
      /\ prev_client' = config._client
      /\ UNCHANGED << returned, twin >>
      /\ IF ~file.parses
           THEN /\ config' = flagged
                /\ Raise(usage_error(e), "Check your configfile.")
                /\ stages' = << "load" >>
                /\ UNCHANGED gam
         ELSE IF partition_error(o) # ""
           THEN /\ config' = loaded
                /\ gam' = NewGAM
                /\ Raise(usage_error(e), partition_error(o))
                /\ stages' = << "load", "partition" >>
         ELSE /\ config' = set_client_factory(loaded, "gam_client")
              /\ gam' = NewGAM
              /\ pc' = "authenticate"
              /\ raised' = NoException
              /\ message' = ""
              /\ stages' = << "load", "partition" >>

\* config.client inside try / except Exception
Authenticate ==
  /\ pc = "authenticate"
  /\ stages' = Append(stages, "authenticate")
  /\ calls' = [calls EXCEPT !.factory = @ + (IF config._client = None THEN 1 ELSE 0)]
  /\ \E granted \in BOOLEAN :
       IF granted
         THEN /\ config' = client_read(config)
              /\ pc' = "verify_network"
              /\ Continue
         ELSE /\ Raise(usage_error(entry),
                       "Check your private key file. Access failed.")
              /\ UNCHANGED config
  /\ UNCHANGED << gam, entry, runs, errors, pending, result, input, outcome,
                  prev_client, returned, twin >>

\* a network check after which the run goes on to pre_create at once
VerifyNetworkThenPreCreate ==
  /\ pc = "verify_network"
  /\ stages' = Append(stages, "verify_network")
  /\ config' = client_read(config)
  /\ calls' = [calls EXCEPT !.network = @ + 1,
                            !.factory = @ + (IF config._client = None THEN 1 ELSE 0)]
  /\ \E answer \in DisplayNames \cup {GoogleAdsError} :
       IF answer = network_name(config)
         THEN pc' = "pre_create" /\ Continue
       ELSE IF answer = GoogleAdsError
         THEN Raise(usage_error(entry), "Access denied to Google account.")
       ELSE Raise(usage_error(entry), "Network name mismatch!")
  /\ UNCHANGED << gam, entry, runs, errors, pending, result, input,
                  outcome, prev_client, returned, twin >>

\* gam.network["displayName"] == config.network_name; the query goes through
\* config.client
VerifyNetwork ==
  /\ pc = "verify_network"
  /\ stages' = Append(stages, "verify_network")
  /\ config' = client_read(config)
  /\ calls' = [calls EXCEPT !.network = @ + 1,
                            !.factory = @ + (IF config._client = None THEN 1 ELSE 0)]
  /\ \E answer \in DisplayNames \cup {GoogleAdsError} :
       IF answer = network_name(config)
         THEN pc' = "validate" /\ Continue
       ELSE IF answer = GoogleAdsError
         THEN Raise(usage_error(entry), "Access denied to Google account.")
       ELSE Raise(usage_error(entry), "Network name mismatch!")
  /\ UNCHANGED << gam, entry, runs, errors, pending, result, input,
                  outcome, prev_client, returned, twin >>

\* Validator(config.schema, config.user).is_valid()
Validate ==
  /\ pc = "validate"
  /\ stages' = Append(stages, "validate")
  /\ IF schema_raises(config)
       THEN Raise(YAMLError, "") /\ UNCHANGED << config, outcome >>
       ELSE /\ config' = schema_read(config)
            /\ \E valid \in BOOLEAN :
                 /\ outcome' = [outcome EXCEPT !.valid = valid]
                 /\ IF valid
                      THEN /\ pc' = IF entry = "app" THEN "validate_override_map"
                                                     ELSE "pre_create"
                           /\ Continue
                      ELSE Raise(usage_error(entry), "Validation errors")
  /\ UNCHANGED << gam, entry, runs, errors, pending, result, calls, input,
                  prev_client, returned, twin >>

\* the bidder-key-map check with its ValueError swallowed
ValidateOverrideMapUnchecked ==
  /\ pc = "validate_override_map"
  /\ stages' = Append(stages, "validate_override_map")
  /\ pc' = "pre_create"
  /\ Continue
  /\ UNCHANGED << config, gam, entry, runs, errors, pending, result, calls,
                  input, outcome, prev_client, returned, twin >>

\* PrebidBidder.validate_override_map(config.user.get("bidder_key_map"))
ValidateOverrideMap ==
  /\ pc = "validate_override_map"
  /\ stages' = Append(stages, "validate_override_map")
  /\ IF validate_override_map_raises(user(config).bidder_key_map)
       THEN Raise(usage_error(entry), OverrideMapMessage)
       ELSE pc' = "pre_create" /\ Continue
  /\ UNCHANGED << config, gam, entry, runs, errors, pending, result, calls,
                  input, outcome, prev_client, returned, twin >>

\* config.pre_create() inside try / except ValueError
PreCreate ==
  /\ pc = "pre_create"
  /\ stages' = Append(stages, "pre_create")
  /\ config' = pre_create(config).config
  /\ IF pre_create(config).raises = ValueError
       THEN Raise(usage_error(entry), pre_create(config).message)
       ELSE pc' = "create" /\ Continue
  /\ UNCHANGED << gam, entry, runs, errors, pending, result, calls, input,
                  outcome, prev_client, returned, twin >>

\* the try block and its except clauses: gam.create_line_items() makes its
\* calls until one of them, number failed, raises exc
Create ==
  /\ pc = "create"
  /\ stages' = Append(stages, "create")
  /\ config' = gam_create_reads(config)
  /\ calls' = [calls EXCEPT !.create = @ + 1,
                            !.cpm = @ + (IF config._cpm_names = None THEN 1 ELSE 0)]
  /\ \E failed \in 0 .. Len(Units(config)) :
       \E exc \in (IF failed = 0 THEN {NoException} ELSE CreationExceptions) :
         LET propagating == IF exc = NoException \/ handled(entry, exc)
                              THEN NoException ELSE exc
         IN  /\ gam' = [gam_create_line_items(gam, Units(config), failed)
                           EXCEPT !.success = (exc = NoException)]
             /\ errors' = record_creation_error(entry, errors, exc)
             /\ pending' = propagating
             /\ outcome' = [outcome EXCEPT !.create = exc, !.failed = failed]
             /\ IF finally_runs(propagating)
                  THEN pc' = "cleanup" /\ Continue
                  ELSE Raise(propagating, "")
  /\ UNCHANGED << entry, runs, result, input, prev_client, returned, twin >>

\* the finally clause: gam.cleanup() inside try / except GoogleAdsError
Cleanup ==
  /\ pc = "cleanup"
  /\ stages' = Append(stages, "cleanup")
  /\ calls' = [calls EXCEPT !.cleanup = @ + 1]
  /\ \E exc \in CleanupExceptions :
       /\ errors' = record_cleanup_error(entry, errors, exc)
       /\ outcome' = [outcome EXCEPT !.cleanup = exc]
  /\ IF pending # NoException
       THEN Raise(pending, "")
       ELSE /\ pc' = IF entry = "app" THEN "assemble" ELSE "returned"
            /\ Continue
  /\ UNCHANGED << config, gam, entry, runs, pending, result, input, prev_client,
                  returned, twin >>

\* the counting and return CreateResult(...)
Assemble ==
  /\ pc = "assemble"
  /\ stages' = Append(stages, "assemble")
  /\ \E include_details \in BOOLEAN :
       result' = Some(create_result(gam, errors, include_details))
  /\ pc' = "returned"
  /\ UNCHANGED << config, gam, entry, runs, errors, pending, raised, calls,
                  input, outcome, prev_client, message, returned, twin >>

\* streamlit_app._render_run after create_line_items returned or raised: the
\* outcome is shown and the run's objects are dropped; the singleton stays
RenderRun ==
  /\ Ended
  /\ entry = "app"
  /\ pc' = "idle"
  /\ entry' = ""
  /\ gam' = NewGAM
  /\ errors' = << >>
  /\ pending' = NoException
  /\ raised' = NoException
  /\ result' = None
  /\ calls' = NoCalls
  /\ stages' = << >>
  /\ input' = None
  /\ outcome' = NoOutcome
  /\ prev_client' = None
  /\ message' = ""
  /\ UNCHANGED << config, runs, returned, twin >>

Pipeline ==
  \/ Authenticate
  \/ VerifyNetwork
  \/ Validate
  \/ ValidateOverrideMap
  \/ PreCreate
  \/ Create
  \/ Cleanup
  \/ Assemble

\* one invocation of either entry point in a fresh process
OnceOptions == { o \in Options : o.network_code = 0 }

BeginOnce ==
  \E e \in {"app", "cli"}, o \in OnceOptions, file \in ConfigFiles :
    runs = 0 /\ Begin(e, o, file)

Next == BeginOnce \/ Pipeline

Spec == Init /\ [][Next]_vars

\* a long-lived process (the dashboard) that calls create_line_items again and
\* again, each time with the options and the file of that run
DashboardOptions ==
  { o \in Options : /\ o.network_name = ""
                    /\ o.schema # BrokenSchema
                    /\ o.bidder_code \in {<< >>, << "rubicon" >>} }

DashboardFiles ==
  { f \in ConfigFiles : f.doc \in { BaseDoc,
                                    [BaseDoc EXCEPT !.publisher.network_code = 8,
                                                    !.rate.granularity.type = "low"] } }

BeginAgain ==
  \E o \in DashboardOptions, file \in DashboardFiles : Begin("app", o, file)

NextProcess == BeginAgain \/ Pipeline \/ RenderRun

SpecProcess == Init /\ [][NextProcess]_vars

(***************************************************************************)
(* The two entry points on the same input: create_line_items runs to its   *)
(* end, then the same flags and the same file are given to the CLI's       *)
(* create command in a process of its own.  twin keeps the first run.      *)
(***************************************************************************)
PairOptions ==
  { o \in OnceOptions : /\ o.network_name = "" /\ o.settings = ""
                        /\ o.schema \in {"", BrokenSchema}
                        /\ ~o.test_run
                        /\ o.bidder_code \in {<< >>, << "rubicon" >>} }

PairFiles ==
  { f \in ConfigFiles : f.doc \in { BaseDoc,
                                    [BaseDoc EXCEPT !.bidder_key_map = {"nosuchbidder"}],
                                    [BaseDoc EXCEPT !.line_item.timezone = "Mars/Phobos"] } }

\* what a finished run did
RunRecord ==
  [entry |-> entry, input |-> input, pc |-> pc, stages |-> stages,
   raised |-> raised, message |-> message, outcome |-> outcome,
   calls |-> calls, errors |-> errors]

\* create_line_items(options) in a fresh process
BeginApp ==
  \E o \in PairOptions, file \in PairFiles :
    runs = 0 /\ twin = None /\ Begin("app", o, file)

\* the run of create_line_items is over: its record is kept and a new process,
\* with a Config object of its own, is started for the CLI
StartCliProcess ==
  /\ Ended /\ entry = "app" /\ twin = None
  /\ twin' = Some(RunRecord)
  /\ config' = NewConfig
  /\ gam' = NewGAM
  /\ pc' = "idle"
  /\ entry' = ""
  /\ errors' = << >>
  /\ pending' = NoException
  /\ raised' = NoException
  /\ result' = None
  /\ calls' = NoCalls
  /\ stages' = << >>
  /\ input' = None
  /\ outcome' = NoOutcome
  /\ prev_client' = None
  /\ message' = ""
  /\ UNCHANGED << runs, returned >>

\* create(ctx, configfile, **kwargs) with the flags and the file of the first run
BeginCli ==
  /\ twin # None /\ entry = ""
  /\ Begin("cli", Get(Get(twin).input).options, Get(Get(twin).input).file)

NextPair == BeginApp \/ Pipeline \/ StartCliProcess \/ BeginCli

SpecPair == Init /\ [][NextPair]_vars

(***************************************************************************)
(* The logger of the package across the runs of one process: each run of   *)
(* create_line_items brings its own quiet flag and verbosity count.        *)
(***************************************************************************)
MaxVerbosity == 2

LoggingOptions ==
  { [o EXCEPT !.quiet = q, !.verbose = v] :
      o \in { d \in DashboardOptions : d.single_order /\ d.bidder_code = << >>
                                       /\ d.settings = "" /\ d.schema = ""
                                       /\ ~d.test_run },
      q \in BOOLEAN, v \in 0 .. MaxVerbosity }

LoggingFiles == { f \in ConfigFiles : f.doc = BaseDoc }

BeginLogged ==
  \E o \in LoggingOptions, file \in LoggingFiles : Begin("app", o, file)

NextLogging == BeginLogged \/ Pipeline \/ RenderRun

SpecLogging == Init /\ [][NextLogging]_vars

(***************************************************************************)
(* The Config object on its own: its operations in any order.  pc holds    *)
(* the operation made last and runs counts the operations.                 *)
(***************************************************************************)
ConfigOptions ==
  { o \in Options : /\ o.network_name = ""
                    /\ o.schema = ""
                    /\ o.single_order /\ o.bidder_code = << >> }

ConfigOp(name) ==
  /\ runs < MaxOps
  /\ runs' = runs + 1
  /\ pc' = name
  /\ UNCHANGED << gam, entry, errors, pending, raised, result, stages, input,
                  outcome, prev_client, message, returned, twin >>

\* config.cli = obj
AssignCli ==
  \E o \in ConfigOptions :
    /\ ConfigOp("cli_assigned")
    /\ config' = cli_setter(config, o)
    /\ UNCHANGED calls

\* config.set_user_configfile(filename); a file that is no YAML raises before
\* anything is assigned
SetUserConfigfile ==
  \E file \in DashboardFiles :
    /\ ConfigOp(IF file.parses THEN "user_installed" ELSE "user_rejected")
    /\ config' = IF file.parses THEN set_user_configfile(config, file) ELSE config
    /\ UNCHANGED calls

\* config.set_client_factory(gam_client)
SetClientFactory ==
  /\ ConfigOp("factory_set")
  /\ config' = set_client_factory(config, "gam_client")
  /\ UNCHANGED calls

\* a read of config.client
ReadClient ==
  /\ config._cli # None /\ config._user # None /\ config._client_factory # ""
  /\ ConfigOp("client_read")
  /\ config' = client_read(config)
  /\ calls' = [calls EXCEPT !.factory = @ + (IF config._client = None THEN 1 ELSE 0)]

\* a call of config.cpm_names()
ReadCpmNames ==
  /\ config._cli # None /\ config._user # None
  /\ ConfigOp("cpm_names_read")
  /\ config' = cpm_names_read(config)
  /\ calls' = [calls EXCEPT !.cpm = @ + (IF config._cpm_names = None THEN 1 ELSE 0)]

NextConfig ==
  \/ AssignCli
  \/ SetUserConfigfile
  \/ SetClientFactory
  \/ ReadClient
  \/ ReadCpmNames

SpecConfig == Init /\ [][NextConfig]_vars

(***************************************************************************)
(* The price list on its own: a document is installed, then cpm_names() is *)
(* called and the test mode of the override layer is switched, in any      *)
(* order.                                                                  *)
(***************************************************************************)
PriceLists ==
  { << Bucket(0, 1000, 100) >>,
    << Bucket(100, 300, 100), Bucket(200, 400, 100) >>,
    << Bucket(101, 101, 10), Bucket(100, 100, 10) >>,
    << Bucket(200, 200, 50), Bucket(100, 100, 50) >>,
    << Bucket(100, 120, 5) >>,
    << >> }

PriceDocs ==
  { [BaseDoc EXCEPT !.rate.granularity.custom = l] : l \in PriceLists }
    \cup { [BaseDoc EXCEPT !.rate.granularity.type = "low"] }

PriceOptions == { o \in ConfigOptions : o.network_code = 0 }

PriceOp(name) ==
  /\ runs < MaxOps
  /\ runs' = runs + 1
  /\ pc' = name
  /\ UNCHANGED << gam, entry, errors, pending, raised, result, stages,
                  outcome, prev_client, message >>

PricesInstalled == pc \in {"installed", "names_returned", "test_run_switched"}

\* config.cli = obj ; config.set_user_configfile(filename)
InstallPrices ==
  \E o \in PriceOptions, doc \in PriceDocs :
    LET file == [parses |-> TRUE, doc |-> doc]
    IN  /\ pc = "idle" /\ runs = 0
        /\ PriceOp("installed")
        /\ config' = set_user_configfile(cli_setter(config, o), file)
        /\ input' = Some([options |-> o, file |-> file])
        /\ UNCHANGED << calls, returned, twin >>

\* a call of config.cpm_names()
CallCpmNames ==
  /\ PricesInstalled
  /\ PriceOp("names_returned")
  /\ UNCHANGED twin
  /\ returned' = Append(returned, cpm_names(config))
  /\ config' = cpm_names_read(config)
  /\ calls' = [calls EXCEPT !.cpm = @ + (IF config._cpm_names = None THEN 1 ELSE 0)]
  /\ UNCHANGED input

\* config.cli = obj, where obj differs from the layer installed in test_run
SwitchTestRun ==
  /\ PricesInstalled
  /\ PriceOp("test_run_switched")
  /\ config' = cli_setter(config, [cli(config) EXCEPT !.test_run = ~@])
  /\ UNCHANGED << calls, returned, input, twin >>

NextPrices == InstallPrices \/ CallCpmNames \/ SwitchTestRun

SpecPrices == Init /\ [][NextPrices]_vars

(***************************************************************************)
(* The resolved document on its own: the layers are installed, then the    *)
(* network fields are read and pre_create() is called.                     *)
(***************************************************************************)
ScheduleDoc(start, end, type, vcpm, tz) ==
  [BaseDoc EXCEPT
     !.publisher.network_code = 8,
     !.line_item.start_datetime = start,
     !.line_item.end_datetime = end,
     !.line_item.item_type = type,
     !.line_item.timezone = tz,
     !.line_item.goal = IF type = "sponsorship"
                          THEN Some([goalType |-> "DAILY", unitType |-> "IMPRESSIONS",
                                     units |-> 100])
                          ELSE None,
     !.rate.vcpm = vcpm]

ScheduleDocs ==
  { ScheduleDoc(start, end, type, vcpm, tz) :
      start \in {"", "01/02/26 10:00"}, end \in {"", "02/02/26 10:00"},
      type \in {"standard", "sponsorship", "price_priority"},
      vcpm \in {0, 100}, tz \in {"", "America/New_York", "Mars/Phobos"} }

PrepareOptions ==
  { o \in Options : /\ o.schema = "" /\ ~o.test_run
                    /\ o.single_order /\ o.bidder_code = << >> }

\* config.cli = obj ; config.set_user_configfile(filename)
InstallDocument ==
  \E o \in PrepareOptions, doc \in ScheduleDocs :
    LET file == [parses |-> TRUE, doc |-> doc]
    IN  /\ pc = "idle" /\ runs = 0
        /\ runs' = 1
        /\ pc' = "installed"
        /\ config' = set_user_configfile(cli_setter(config, o), file)
        /\ input' = Some([options |-> o, file |-> file])
        /\ UNCHANGED << gam, entry, errors, pending, raised, result, calls,
                        stages, outcome, prev_client, message, returned, twin >>

\* reads of config.network_code and config.network_name
ReadNetwork ==
  /\ pc \in {"installed", "pre_created"}
  /\ pc' = "network_read"
  /\ UNCHANGED twin
  /\ returned' = Append(returned, [network_code |-> network_code(config),
                                    network_name |-> network_name(config)])
  /\ UNCHANGED << config, gam, entry, runs, errors, pending, raised, result,
                  calls, stages, input, outcome, prev_client, message >>

\* a call of config.pre_create()
CallPreCreate ==
  /\ pc = "installed"
  /\ config' = pre_create(config).config
  /\ raised' = pre_create(config).raises
  /\ message' = pre_create(config).message
  /\ pc' = IF pre_create(config).raises = NoException THEN "pre_created"
                                                      ELSE "pre_create_raised"
  /\ UNCHANGED << gam, entry, runs, errors, pending, result, calls, stages,
                  input, outcome, prev_client, returned, twin >>

NextPrepare == InstallDocument \/ ReadNetwork \/ CallPreCreate

SpecPrepare == Init /\ [][NextPrepare]_vars

(***************************************************************************)
(* Properties.                                                             *)
(***************************************************************************)
Reached(stage) == \E i \in DOMAIN stages : stages[i] = stage

\* the exception types create_line_items names in its except clauses
AppHandled == {ResourceNotActive, ResourceNotFound, GoogleAdsError, ValueError,
               KeyboardInterrupt}

Returned == result # None

\* C1: in every run of either entry point that calls gam.create_line_items(),
\* gam.cleanup() is called exactly once, directly after the creation attempt
\* has ended, whether the attempt returned, raised an exception the entry point
\* catches, or raised one it does not catch.
C1_CleanupExactlyOnce ==
  /\ calls.create <= 1
  /\ calls.cleanup <= calls.create
  /\ pc = "cleanup" => calls.create = 1 /\ calls.cleanup = 0
  /\ (Ended /\ calls.create = 1) =>
       /\ calls.cleanup = 1
       /\ \E i \in DOMAIN stages :
            /\ stages[i] = "create"
            /\ i + 1 \in DOMAIN stages
            /\ stages[i + 1] = "cleanup"

C1_Witness ==
  Ended /\ entry = "app" /\ raised = OtherError /\ calls.cleanup = 1

\* C2: in every CreateResult that create_line_items returns, success is true
\* exactly when the errors list is empty, and the list is empty exactly when
\* neither the creation phase nor the cleanup phase failed.
C2_SuccessIffNoErrors ==
  Returned =>
    /\ Get(result).success <=> (Get(result).errors = << >>)
    /\ (Get(result).errors = << >>)
         <=> (outcome.create = NoException /\ outcome.cleanup = NoException)

C2_Witness ==
  /\ Returned
  /\ outcome.create = NoException /\ outcome.cleanup = GoogleAdsError
  /\ ~Get(result).success

\* C3: whenever create_line_items ends before the creation phase, it ends by
\* raising LineItemManagerUsageError, returns no result, and has called neither
\* gam.create_line_items() nor gam.cleanup().
C3_AbortRaisesUsageError ==
  (entry = "app" /\ pc = "raised" /\ ~Reached("create")) =>
    /\ raised = UsageError
    /\ ~Returned
    /\ calls.create = 0 /\ calls.cleanup = 0

\* C4 as stated: every run of create_line_items that enters the creation phase
\* ends by returning a CreateResult and never by raising.
C4_AlwaysReturnsResult ==
  (entry = "app" /\ Ended /\ calls.create = 1) =>
    Returned /\ raised = NoException

\* C4 amended: a run of create_line_items that enters the creation phase ends
\* by returning one complete CreateResult when gam.create_line_items() returns
\* or raises one of the five exception types the except clauses name; an
\* exception of any other type leaves create_line_items after the cleanup call,
\* and no result is returned.
C4_ReturnsResultUnlessUncaught ==
  (entry = "app" /\ Ended /\ calls.create = 1) =>
    IF outcome.create \in AppHandled \cup {NoException}
      THEN /\ Returned /\ raised = NoException /\ pc = "returned"
           /\ DOMAIN Get(result) = {"success", "errors", "line_item_count",
                                    "lica_count", "line_items", "licas"}
      ELSE /\ ~Returned /\ raised = outcome.create /\ pc = "raised"
           /\ calls.cleanup = 1

C4_Witness ==
  /\ entry = "app" /\ Returned
  /\ outcome.create = ValueError /\ outcome.cleanup = GoogleAdsError

\* C5: a KeyboardInterrupt raised during gam.create_line_items() is caught by
\* create_line_items and recorded in the errors list before the cleanup call;
\* the run then returns a CreateResult with success false that holds the entry,
\* and the interrupt does not reach the caller.
C5_InterruptRecorded ==
  (entry = "app" /\ outcome.create = KeyboardInterrupt) =>
    /\ errors # << >> /\ errors[1] = "User Interrupt"
    /\ pending = NoException /\ raised = NoException
    /\ pc \in {"cleanup", "assemble", "returned"}
    /\ pc # "cleanup" => calls.cleanup = 1
    /\ Ended => /\ Returned
                /\ ~Get(result).success
                /\ Get(result).errors # << >>
                /\ Get(result).errors[1] = "User Interrupt"

C5_Witness ==
  entry = "app" /\ outcome.create = KeyboardInterrupt /\ Returned

\* C6: when gam.cleanup() fails in create_line_items, its error is the last
\* entry of the errors list, after the creation phase's entry, which is kept
\* and returned in the result; a run whose creation succeeded and whose cleanup
\* failed returns success false with the cleanup error as its only entry.
C6_CleanupErrorAppended ==
  (entry = "app" /\ outcome.cleanup = GoogleAdsError) =>
    LET creation == IF outcome.create \in AppHandled
                      THEN << error_message(outcome.create) >> ELSE << >>
    IN  /\ errors = creation \o << CleanupMessage >>
        /\ (Ended /\ creation # << >>) => Returned
        /\ Returned => Get(result).errors = errors /\ ~Get(result).success
        /\ (Returned /\ outcome.create = NoException) =>
             Get(result).errors = << CleanupMessage >>

C6_Witness ==
  /\ entry = "app" /\ Returned
  /\ outcome.create = GoogleAdsError /\ outcome.cleanup = GoogleAdsError

\* C7: a run whose options choose both single_order and bidder codes, or
\* neither, ends with the usage error at the partition check, before any
\* external call; so in every run that reaches creation exactly one mode is
\* chosen and bidder_codes() is the single-order code of the settings or the
\* non-empty list of bidder codes supplied.
C7_ExactlyOnePartition ==
  /\ ( /\ pc # "idle" /\ config._user # None
       /\ cli(config).single_order <=> (cli(config).bidder_code # << >>) )
       => /\ pc = "raised" /\ raised = usage_error(entry)
          /\ stages = << "load", "partition" >>
          /\ calls = NoCalls
  /\ Reached("create") =>
       LET o == cli(config)
       IN  /\ o.single_order # (o.bidder_code # << >>)
           /\ bidder_codes(config) # << >>
           /\ bidder_codes(config) =
                IF o.single_order
                  THEN << SettingsOf(o.settings).prebid.bidders.single_order.code >>
                  ELSE o.bidder_code
           /\ \A i \in DOMAIN gam.attempted :
                \E j \in DOMAIN bidder_codes(config) :
                  gam.attempted[i].bidder = bidder_codes(config)[j]

C7_Witness ==
  /\ Ended /\ entry = "app" /\ config._user # None
  /\ cli(config).single_order /\ cli(config).bidder_code # << >>
  /\ raised = UsageError

\* the creation of a grouping failed with an exception create_line_items catches
GroupingFailed ==
  /\ outcome.create \in AppHandled
  /\ gam.attempted # << >>
  /\ gam.attempted[Len(gam.attempted)].kind = "order"

FailedBidder == gam.attempted[Len(gam.attempted)].bidder

UnitsOf(bidder) == SelectSeq(gam.attempted, LAMBDA u : u.bidder = bidder)

CreationEntries(errs) == SelectSeq(errs, LAMBDA m : m # CleanupMessage)

C9_RunReadsOwnLayers ==
  pc # "idle" =>
    LET o == Get(input).options
        file == Get(input).file
        type == file.doc.rate.granularity.type
        own_settings == SettingsOf(o.settings)
        own_code == IF o.network_code # 0 THEN o.network_code
                                          ELSE file.doc.publisher.network_code
        own_buckets == IF type = "custom" THEN file.doc.rate.granularity.custom
                       ELSE own_settings.prebid.price_granularity[type]
    IN  /\ config._cli = Some(o)
        /\ config._user # None =>
             /\ file.parses
             /\ user(config).publisher = file.doc.publisher
             /\ user(config).rate.granularity = file.doc.rate.granularity
        /\ config._schema # None => Get(config._schema) = SchemaOf(o.schema)
        /\ config._app # None => Get(config._app) = own_settings
        /\ config._client # None =>
             Get(config._client) = gam_client(own_code, o.private_key_file)
        /\ config._cpm_names # None =>
             Get(config._cpm_names) = names_of_buckets(own_buckets)

C9_Witness ==
  /\ runs = 2 /\ pc = "cleanup"
  /\ prev_client # None /\ config._client # None /\ config._client # prev_client
  /\ config._cpm_names # None /\ config._schema # None /\ config._app # None

\* C10 as stated: assigning Config.cli and calling set_user_configfile each
\* clear both the memoized client handle and the memoized price list.
C10_BothCachesInvalidated ==
  pc \in {"cli_assigned", "user_installed"} =>
    config._client = None /\ config._cpm_names = None

\* C10 amended: assigning Config.cli clears the memoized client handle and
\* keeps the memoized price list; set_user_configfile clears both; so a read
\* of config.client returns the handle of the layers then installed, and a
\* call of cpm_names() the expansion of the document then installed.
C10_Invalidation ==
  /\ pc = "cli_assigned" => config._client = None
  /\ pc = "user_installed" => config._client = None /\ config._cpm_names = None
  /\ pc = "client_read" =>
       config._client =
         Some(gam_client(network_code(config), cli(config).private_key_file))
  /\ pc = "cpm_names_read" => config._cpm_names = Some(expand_cpm_names(config))

C10_Witness ==
  pc = "cli_assigned" /\ config._client = None /\ config._cpm_names # None

\* the document of the run's configuration file
InputDoc == Get(input).file.doc

\* the run's configuration sets vcpm on a line item that is not standard
VcpmOnNonStandard ==
  /\ input # None /\ Get(input).file.parses
  /\ InputDoc.rate.vcpm # 0
  /\ InputDoc.line_item.item_type # "standard"

\* C11 as stated: a run whose configuration sets rate.vcpm on an item type
\* other than standard fails with the configuration error before the client
\* factory is invoked and before the network is queried.
C11_VcpmFailsBeforeExternalCalls ==
  (VcpmOnNonStandard /\ Ended /\ Reached("pre_create")) =>
    /\ raised = usage_error(entry)
    /\ calls.factory = 0 /\ calls.network = 0

\* C11 amended: a run whose configuration sets rate.vcpm on an item type other
\* than standard never calls gam.create_line_items() or gam.cleanup(); when no
\* earlier stage ends the run, pre_create raises and the run fails with the
\* usage error, after the client factory was invoked and the network queried.
C11_VcpmFailsBeforeCreation ==
  VcpmOnNonStandard =>
    /\ calls.create = 0 /\ calls.cleanup = 0
    /\ pc \notin {"create", "cleanup", "assemble", "returned"}
    /\ Reached("pre_create") =>
         /\ pc = "raised" /\ raised = usage_error(entry)
         /\ message = "Specifying 'vcpm' requires using line item type 'standard'"
         /\ calls.factory = 1 /\ calls.network = 1

C11_Witness ==
  /\ VcpmOnNonStandard /\ entry = "app"
  /\ pc = "raised" /\ Reached("pre_create") /\ calls.network = 1

\* the granularity rules of the run's configuration expand to no price
EmptyPriceList ==
  /\ input # None /\ Get(input).file.parses
  /\ InputDoc.rate.granularity.type = "custom"
  /\ InputDoc.rate.granularity.custom = << >>

\* C12: a run whose granularity rules expand to an empty price list is aborted
\* as a configuration error, so gam.create_line_items() is never invoked with
\* an empty cpm_names() list.
C12_EmptyPriceListAborts ==
  (EmptyPriceList /\ entry = "app") =>
    /\ calls.create = 0
    /\ pc \notin {"cleanup", "assemble", "returned"}

LastStage == IF stages = << >> THEN "" ELSE stages[Len(stages)]

\* C13: every run of create_line_items that reaches gam.create_line_items()
\* passed both gates: the validator reported no violation of the schema and
\* the override map names only recognised bidder codes; a schema violation
\* ends the run at the validation stage and an unrecognised bidder code at the
\* override-map stage, each with the usage error and its own text.
C13_ValidationGates ==
  entry = "app" =>
    /\ (pc \in {"create", "cleanup", "assemble", "returned"} \/ calls.create = 1) =>
         /\ outcome.valid
         /\ InputDoc.bidder_key_map \subseteq KnownBidders
    /\ (pc = "raised" /\ LastStage = "validate" /\ raised = UsageError) =>
         ~outcome.valid /\ message = "Validation errors"
    /\ (pc \notin {"idle", "raised"} /\ Reached("validate")) => outcome.valid
    /\ (pc = "raised" /\ LastStage = "validate_override_map") =>
         /\ raised = UsageError /\ message = OverrideMapMessage
         /\ message # "Validation errors"
         /\ outcome.valid
         /\ ~(InputDoc.bidder_key_map \subseteq KnownBidders)
    /\ (pc \notin {"idle", "raised"} /\ Reached("validate_override_map")) =>
         InputDoc.bidder_key_map \subseteq KnownBidders

C13_Witness ==
  /\ entry = "app" /\ pc = "raised" /\ LastStage = "validate_override_map"
  /\ message = OverrideMapMessage /\ calls.create = 0

\* the list the last call made on the Config object returned
LastReturned == returned[Len(returned)]

\* the prices, in cents, of the buckets of the document installed
InstalledValues ==
  LET buckets == cpm_buckets(config)
  IN  UNION { values_from_bucket(buckets[i]) : i \in DOMAIN buckets }

IsPrefix(short, long) ==
  Len(short) <= Len(long) /\ short = SubSeq(long, 1, Len(short))

\* C14: in test mode with limit L, cpm_names() returns the first min(L, n)
\* entries of the memoized list of all n names, and outside test mode all of
\* them; the memoized list always holds all n names, whatever calls were made
\* in test mode before.
C14_TruncationOnlyInQueries ==
  pc = "names_returned" =>
    LET stored == Get(config._cpm_names)
        limit == SettingsOf(cli(config).settings).mgr.test_run.line_item_limit
        n == Cardinality(InstalledValues)
    IN  /\ Len(stored) = n
        /\ cli(config).test_run =>
             /\ Len(LastReturned) = (IF limit < n THEN limit ELSE n)
             /\ IsPrefix(LastReturned, stored)
        /\ ~cli(config).test_run => LastReturned = stored
        /\ \A i \in DOMAIN returned : IsPrefix(returned[i], stored)

C14_Witness ==
  /\ pc = "names_returned" /\ Len(returned) = 2
  /\ Len(returned[1]) = 3 /\ Len(returned[2]) = 11
  /\ ~cli(config).test_run

\* C15: the list cpm_names() memoizes holds one name for every price of the
\* union of the bucket expansions, in ascending order of the prices, and no
\* name twice, also when buckets overlap or hold bounds that round to the same
\* two decimals.
C15_SortedWithoutDuplicates ==
  pc = "names_returned" =>
    LET stored == Get(config._cpm_names)
    IN  /\ Len(stored) = Cardinality(InstalledValues)
        /\ \A i \in DOMAIN stored :
             \E v \in InstalledValues :
               /\ stored[i] = Fmt2(v)
               /\ Cardinality({ w \in InstalledValues : w < v }) = i - 1
        /\ \A i, j \in DOMAIN stored : i # j => stored[i] # stored[j]
        /\ \A i, j \in DOMAIN LastReturned :
             i # j => LastReturned[i] # LastReturned[j]

C15_Witness ==
  /\ pc = "names_returned"
  /\ user(config).rate.granularity.custom
       = << Bucket(101, 101, 10), Bucket(100, 100, 10) >>
  /\ LastReturned = << "0.10" >>

\* the external creations of the run that succeeded
Made ==
  IF outcome.failed = 0 THEN gam.attempted
  ELSE SubSeq(gam.attempted, 1, Len(gam.attempted) - 1)

MadeOfKind(kind) == SelectSeq(Made, LAMBDA u : u.kind = kind)

\* C16: in every CreateResult, line_item_count is the number of line items and
\* lica_count the number of creative associations that were created and are
\* tracked at the end of the run, with or without recorded errors; the
\* snapshot lists are either both empty or hold exactly the counted resources.
C16_CountsAreActual ==
  Returned =>
    LET r == Get(result)
    IN  /\ r.line_item_count = Len(MadeOfKind("line_item"))
        /\ r.lica_count = Len(MadeOfKind("lica"))
        /\ \/ r.line_items = << >> /\ r.licas = << >>
           \/ /\ r.line_items = MadeOfKind("line_item")
              /\ Len(r.licas) = Len(MadeOfKind("order"))
              /\ Flatten(r.licas) = MadeOfKind("lica")

C16_Witness ==
  /\ Returned /\ Get(result).errors # << >>
  /\ Get(result).line_item_count = 3 /\ Get(result).lica_count = 2
  /\ Get(result).line_items = << >>

\* C17: config.network_code is the override layer's value when that layer
\* supplies one and the user document's otherwise, and so is
\* config.network_name; which layer supplies one field has no bearing on the
\* other.
C17_PerFieldPrecedence ==
  pc = "network_read" =>
    LET o == Get(input).options
        publisher == InputDoc.publisher
    IN  /\ LastReturned.network_code =
             (IF o.network_code # 0 THEN o.network_code ELSE publisher.network_code)
        /\ LastReturned.network_name =
             (IF o.network_name # "" THEN o.network_name ELSE publisher.network_name)

C17_Witness ==
  /\ pc = "network_read"
  /\ Get(input).options.network_code = 7 /\ Get(input).options.network_name = ""
  /\ LastReturned = [network_code |-> 7, network_name |-> "DocPub"]

\* C18: after pre_create() returned, start_dt and start_dt_type are both
\* IMMEDIATELY exactly when the document gave no start_datetime, and
\* unlimited_end_dt is true exactly when it gave no end_datetime.
C18_ScheduleSentinels ==
  pc = "pre_created" =>
    LET li_ == user(config).line_item
        given == InputDoc.line_item
    IN  /\ (li_.start_dt = Some(Immediately)) <=> (given.start_datetime = "")
        /\ (li_.start_dt_type = "IMMEDIATELY") <=> (given.start_datetime = "")
        /\ given.start_datetime # "" =>
             /\ li_.start_dt_type = "USE_START_DATE_TIME"
             /\ li_.start_dt # None /\ Get(li_.start_dt).text = given.start_datetime
        /\ (li_.unlimited_end_dt = Some(TRUE)) <=> (given.end_datetime = "")
        /\ (li_.unlimited_end_dt = Some(FALSE)) <=> (given.end_datetime # "")
        /\ (li_.end_dt = None) <=> (given.end_datetime = "")

C18_Witness ==
  /\ pc = "pre_created"
  /\ InputDoc.line_item.start_datetime = "" /\ InputDoc.line_item.end_datetime # ""
  /\ user(config).line_item.start_dt_type = "IMMEDIATELY"
  /\ user(config).line_item.unlimited_end_dt = Some(FALSE)

\* the stages of create_line_items, in the order of its code
AppStages ==
  << "load", "partition", "authenticate", "verify_network", "validate",
     "validate_override_map", "pre_create", "create", "cleanup", "assemble" >>

\* C19: the stages a run of create_line_items has entered are always a prefix
\* of the fixed sequence authentication, network verification, validation,
\* pre-processing, creation, cleanup, assembly: creation starts only when the
\* four stages before it succeeded, and a result exists only when cleanup has
\* been called and every stage was entered once.
C19_FixedStageOrder ==
  entry = "app" =>
    /\ IsPrefix(stages, AppStages)
    /\ (pc = "create" \/ Reached("create")) =>
         /\ SubSeq(stages, 1, 7) = SubSeq(AppStages, 1, 7)
         /\ calls.factory = 1 /\ calls.network = 1
         /\ config._client # None
         /\ outcome.valid
         /\ user(config).rate.cost_type # ""
    /\ (pc = "assemble" \/ Returned) =>
         /\ calls.create = 1 /\ calls.cleanup = 1
         /\ SubSeq(stages, 1, 9) = SubSeq(AppStages, 1, 9)
    /\ Returned => stages = AppStages

C19_Witness ==
  /\ entry = "app" /\ Returned /\ stages = AppStages
  /\ outcome.create = ResourceNotFound /\ outcome.cleanup = NoException

\* C20: within a run no external operation is made twice: the client factory,
\* gam.create_line_items() and gam.cleanup() are each invoked at most once,
\* the network query reads the memoized handle, and a call that failed is not
\* followed by another call of the same operation.
C20_NoRetries ==
  /\ calls.factory <= 1 /\ calls.network <= 1
  /\ calls.create <= 1 /\ calls.cleanup <= 1
  /\ Reached("authenticate") => calls.factory = 1
  /\ Reached("verify_network") => calls.factory = 1 /\ calls.network = 1
  /\ (pc = "raised" /\ LastStage \in {"authenticate", "verify_network"}) =>
       calls.create = 0 /\ calls.cleanup = 0
  /\ outcome.create # NoException =>
       calls.create = 1 /\ pc \in {"cleanup", "assemble", "returned", "raised"}
  /\ outcome.cleanup # NoException =>
       calls.cleanup = 1 /\ pc \in {"assemble", "returned", "raised"}

C20_Witness ==
  /\ Ended /\ entry = "app"
  /\ outcome.create = GoogleAdsError /\ outcome.cleanup = GoogleAdsError
  /\ calls.factory = 1 /\ calls.network = 1
  /\ calls.create = 1 /\ calls.cleanup = 1

\* C21: after pre_create() returned, cost_type is VCPM exactly when the
\* document gave a vcpm and CPM otherwise; the goal is LIFETIME /
\* VIEWABLE_IMPRESSIONS with the vcpm as units exactly when a vcpm was given,
\* the item then being standard; an item that is no sponsorship and has no
\* vcpm has goalType NONE; the goal of a sponsorship is the document's.
C21_GoalAndCostType ==
  pc = "pre_created" =>
    LET li_ == user(config).line_item
        given == InputDoc
        vcpm == given.rate.vcpm
        lifetime == Some([goalType |-> "LIFETIME",
                          unitType |-> "VIEWABLE_IMPRESSIONS", units |-> vcpm])
    IN  /\ (user(config).rate.cost_type = "VCPM") <=> (vcpm # 0)
        /\ (user(config).rate.cost_type = "CPM") <=> (vcpm = 0)
        /\ (li_.goal = lifetime) <=> (vcpm # 0)
        /\ vcpm # 0 => given.line_item.item_type = "standard"
        /\ (given.line_item.item_type # "sponsorship" /\ vcpm = 0) =>
             li_.goal # None /\ Get(li_.goal).goalType = "NONE"
        /\ given.line_item.item_type = "sponsorship" =>
             li_.goal = given.line_item.goal

C21_Witness ==
  /\ pc = "pre_created"
  /\ InputDoc.rate.vcpm = 100
  /\ user(config).rate.cost_type = "VCPM"
  /\ Get(user(config).line_item.goal).goalType = "LIFETIME"

\* C22: in every run of create_line_items that reaches creation, the order
\* name and the line item name are one run-mode placeholder followed by the
\* name of the run's user document, whatever runs the process made before.
C22_OnePlaceholder ==
  (entry = "app" /\ (pc = "create" \/ Reached("create"))) =>
    /\ user(config).order.name = << RunModePlaceholder >> \o InputDoc.order.name
    /\ user(config).line_item.name
         = << RunModePlaceholder >> \o InputDoc.line_item.name
    /\ Len(SelectSeq(user(config).order.name,
                     LAMBDA t : t = RunModePlaceholder)) = 1
    /\ Len(SelectSeq(user(config).line_item.name,
                     LAMBDA t : t = RunModePlaceholder)) = 1

C22_Witness ==
  /\ entry = "app" /\ runs = 2 /\ prev_client # None
  /\ Reached("create")
  /\ user(config).order.name = << RunModePlaceholder, "Order" >>

CleanupEntries(errs) == SelectSeq(errs, LAMBDA m : m = CleanupMessage)

\* C23: the errors list of every CreateResult has at most two entries, at most
\* one of the creation phase and at most one of the cleanup phase, and an
\* entry of the creation phase comes first.
C23_AtMostTwoErrors ==
  Returned =>
    LET errs == Get(result).errors
    IN  /\ Len(errs) <= 2
        /\ Len(CreationEntries(errs)) <= 1
        /\ Len(CleanupEntries(errs)) <= 1
        /\ Len(CreationEntries(errs)) = 1 => errs[1] # CleanupMessage
        /\ Len(errs) = 2 => errs[2] = CleanupMessage
        /\ (Len(CreationEntries(errs)) = 1) <=> (outcome.create # NoException)

C23_Witness ==
  /\ Returned /\ Len(Get(result).errors) = 2
  /\ Get(result).errors[1] = "Unexpected result"
  /\ Get(result).errors[2] = CleanupMessage

\* the options of the run choose both partition modes or neither
InvalidPartition ==
  Get(input).options.single_order <=> (Get(input).options.bidder_code # << >>)

\* C24: a run of create_line_items with an invalid partition choice ends with
\* the usage error before the client factory is installed or invoked and
\* before the network is queried; a run whose configuration file does not
\* parse ends before the partition choice is checked.
C24_AbortOrder ==
  (entry = "app" /\ input # None) =>
    /\ (Get(input).file.parses /\ InvalidPartition) =>
         /\ pc = "raised" /\ raised = UsageError
         /\ message \in
              {"You must use --single-order or provide at least one --bidder-code",
               "Use of --single-order and --bidder-code is not allowed."}
         /\ config._client_factory = "" /\ config._client = None
         /\ calls.factory = 0 /\ calls.network = 0
         /\ ~Reached("authenticate") /\ ~Reached("verify_network")
    /\ ~Get(input).file.parses =>
         /\ pc = "raised" /\ raised = UsageError
         /\ message = "Check your configfile."
         /\ stages = << "load" >>
         /\ config._user = None /\ config._client_factory = ""
         /\ calls = NoCalls

C24_Witness ==
  /\ entry = "app" /\ pc = "raised"
  /\ ~Get(input).file.parses /\ InvalidPartition
  /\ message = "Check your configfile."

\* the stage was entered by both runs of the pair
Both(stage) ==
  Reached(stage) /\ \E i \in DOMAIN Get(twin).stages : Get(twin).stages[i] = stage

\* what the platform answered to the network query, as the run's end tells it
NetworkAnswer(msg) ==
  IF msg = "Access denied to Google account." THEN "denied"
  ELSE IF msg = "Network name mismatch!" THEN "mismatch"
  ELSE "match"

KeyFileMessage == "Check your private key file. Access failed."

\* the external collaborators behaved alike in both runs of the pair, in every
\* call that both runs made
SameCollaborators ==
  LET t == Get(twin)
  IN  /\ Both("authenticate") =>
           ((message = KeyFileMessage) <=> (t.message = KeyFileMessage))
      /\ Both("verify_network") =>
           NetworkAnswer(message) = NetworkAnswer(t.message)
      /\ Both("validate") => outcome.valid = t.outcome.valid
      /\ Both("create") => /\ outcome.create = t.outcome.create
                           /\ outcome.failed = t.outcome.failed
      /\ Both("cleanup") => outcome.cleanup = t.outcome.cleanup

\* the CLI run of the pair is over, after collaborators that behaved alike
PairEnded == twin # None /\ entry = "cli" /\ Ended /\ SameCollaborators

\* C25: for the same flags, the same document and the same behaviour of the
\* external collaborators, the CLI's create and create_line_items fail at the
\* same gate with the same message or both reach gam.create_line_items(),
\* and after creation both end without a raw exception or both propagate one.
C25_SamePipeline ==
  PairEnded =>
    LET t == Get(twin)
        twin_created == \E i \in DOMAIN t.stages : t.stages[i] = "create"
    IN  /\ Reached("create") <=> twin_created
        /\ (~Reached("create") /\ ~twin_created) =>
             /\ message = t.message
             /\ (raised = ClickUsageError) <=> (t.raised = UsageError)
        /\ (Reached("create") /\ twin_created) =>
             ((pc = "returned") <=> (t.pc = "returned"))

\* the same, for the pairs whose document passes the bidder-key-map check and
\* whose creation does not raise ValueError
C25_SamePipelineOtherwise ==
  (/\ PairEnded
   /\ ~validate_override_map_raises(Get(Get(twin).input).file.doc.bidder_key_map)
   /\ outcome.create # ValueError) =>
    C25_SamePipeline

\* the level the flags of one run ask for
LevelOf(o) ==
  IF o.quiet THEN WARNING
  ELSE IF o.verbose # 0 THEN INFO - o.verbose
  ELSE INFO

\* C26: during every run of create_line_items in a process, the level of the
\* logger is the one the quiet and verbose flags of that run ask for (WARNING
\* when quiet, INFO minus the verbosity count when verbose, INFO when
\* neither), whatever the flags of the runs before it were.
C26_LevelOfThisRun ==
  (entry = "app" /\ input # None) =>
    config.log_level = LevelOf(Get(input).options)

\* the same, for the runs that set a flag and for the first run of a process
C26_LevelOfFlaggedRun ==
  (/\ entry = "app" /\ input # None
   /\ (Get(input).options.quiet \/ Get(input).options.verbose # 0 \/ runs = 1)) =>
    config.log_level = LevelOf(Get(input).options)

=============================================================================
